---- MODULE Spec2Model ----
(***************************************************************************)
(* Model of src/reader.py, class StreamingInstabilityData: the population  *)
(* loaded from a table of (n_ice, n_sil) counts by the constructor and     *)
(* extended by add_masses.                                                 *)
(*                                                                         *)
(* Numbers.  The program computes in binary floating point (numpy/Python   *)
(* floats).  The model computes in exact rational arithmetic: a number is  *)
(* a pair <<n, d>>, d > 0, in lowest terms; <<0, 0>> is NaN and            *)
(* <<1, 0>>, <<-1, 0>> are +inf and -inf, the results numpy gives for 0/0  *)
(* and x/0.  The inputs drawn below are dyadic rationals chosen so that    *)
(* every intermediate value is a short dyadic rational, which binary       *)
(* floating point computes without rounding: on these inputs the model's   *)
(* values are the program's values.  Rounding error itself is not          *)
(* modelled.                                                               *)
(***************************************************************************)
EXTENDS Integers, Sequences, FiniteSets

VARIABLES
    rho_ice,            \* self.rho_ice
    rho_sil,            \* self.rho_sil
    unit_mass,          \* self.unit_mass
    initial_porosity,   \* self.initial_porosity
    table,              \* the rows <<n_ice, n_sil>> of the file at file_path
    pc,                 \* "new" before __init__ ran, "constructed" after
    n_mass,             \* self.n_mass
    porosity,           \* self.porosity
    ice_fraction,       \* self.ice_fraction
    mass,               \* self.mass
    density,            \* self.density
    call,               \* the arguments and outcome of the latest add_masses
    ncalls              \* number of add_masses calls made so far

vars == <<rho_ice, rho_sil, unit_mass, initial_porosity, table, pc, n_mass,
          porosity, ice_fraction, mass, density, call, ncalls>>

population == <<ice_fraction, mass, density, porosity, n_mass>>

----------------------------------------------------------------------------
(* Bounds of the model.                                                    *)

MaxBins == 2        \* largest n_bins passed to add_masses
MaxPerBin == 2      \* largest m_per_bin passed to add_masses
MaxCalls == 2       \* add_masses calls per behaviour

----------------------------------------------------------------------------
(* Arithmetic of the program's numbers.                                    *)

NaN == <<0, 0>>

Abs(x) == IF x < 0 THEN -x ELSE x

Sgn(x) == IF x < 0 THEN -1 ELSE IF x > 0 THEN 1 ELSE 0

RECURSIVE GCD(_, _)
GCD(a, b) == IF b = 0 THEN a ELSE GCD(b, a % b)

\* The number n/d, d # 0, in lowest terms with a positive denominator.
Norm(n, d) ==
    LET g == GCD(Abs(n), Abs(d))
    IN  <<(Sgn(d) * n) \div g, Abs(d) \div g>>

R(n) == <<n, 1>>

Q(n, d) == Norm(n, d)

IsNaN(x) == x = NaN

IsInf(x) == x[2] = 0 /\ x[1] # 0

RNeg(x) == <<-x[1], x[2]>>

RAdd(a, b) ==
    IF IsNaN(a) \/ IsNaN(b) THEN NaN
    ELSE IF IsInf(a) THEN (IF IsInf(b) /\ b # a THEN NaN ELSE a)
    ELSE IF IsInf(b) THEN b
    ELSE Norm(a[1] * b[2] + b[1] * a[2], a[2] * b[2])

RSub(a, b) == RAdd(a, RNeg(b))

RMul(a, b) ==
    IF IsNaN(a) \/ IsNaN(b) THEN NaN
    ELSE IF IsInf(a) \/ IsInf(b)
         THEN (IF a[1] = 0 \/ b[1] = 0 THEN NaN ELSE <<Sgn(a[1]) * Sgn(b[1]), 0>>)
    ELSE Norm(a[1] * b[1], a[2] * b[2])

\* numpy division: 0/0 is nan and x/0 is +-inf (a warning, no exception).
RDiv(a, b) ==
    IF IsNaN(a) \/ IsNaN(b) THEN NaN
    ELSE IF IsInf(b) THEN (IF IsInf(a) THEN NaN ELSE R(0))
    ELSE IF b[1] = 0 THEN (IF a[1] = 0 THEN NaN ELSE <<Sgn(a[1]), 0>>)
    ELSE IF IsInf(a) THEN <<Sgn(a[1]) * Sgn(b[1]), 0>>
    ELSE Norm(a[1] * b[2], a[2] * b[1])

\* Floating-point comparisons: every comparison with NaN is false.
REq(a, b) == ~IsNaN(a) /\ ~IsNaN(b) /\ a = b

\* Two infinities compare by their signs; otherwise the cross products
\* decide (a zero denominator on one side only leaves the sign of the
\* infinity against zero).
RLe(a, b) ==
    /\ ~IsNaN(a)
    /\ ~IsNaN(b)
    /\ IF IsInf(a) /\ IsInf(b)
       THEN a[1] <= b[1]
       ELSE a[1] * b[2] <= b[1] * a[2]

RLt(a, b) == RLe(a, b) /\ a # b

----------------------------------------------------------------------------
(* __get_planetesimal_properties                                           *)

\* mgas_code * eps / npar of lines 31-32: a fixed positive factor
\* (16749076.820152447 * 0.00078125^3 * 0.03 / 1.536e7).  The model measures
\* masses in units of this factor, so that it is 1 here and unit_mass = u
\* in the model stands for the argument unit_mass = u / (mgas_code*eps/npar).
mpar_code == R(1)

mpar(um) == RMul(mpar_code, um)

\* np.repeat(x, n), and [x] * n of a Python list: empty when n <= 0.
Repeat(x, n) == [i \in 1..n |-> x]

RowIceFraction(row) == RDiv(R(row[1]), R(row[1] + row[2]))

RowMass(row, um) == RMul(R(row[1] + row[2]), mpar(um))

\* porosity * (rho_ice * f + rho_sil * (1 - f))
DensityOf(p, f, ri, rs) ==
    RMul(p, RAdd(RMul(ri, f), RMul(rs, RSub(R(1), f))))

----------------------------------------------------------------------------
(* add_masses                                                              *)

\* np.linspace(start, stop, num), num >= 0, as a sequence of num values.
Linspace(start, stop, num) ==
    [j \in 1..num |->
        IF num > 1 /\ j = num THEN stop
        ELSE IF num > 1
             THEN RAdd(RMul(R(j - 1), RDiv(RSub(stop, start), R(num - 1))), start)
             ELSE RAdd(RMul(R(j - 1), RSub(stop, start)), start)]

\* Number of passes through the body of the nested loops of lines 44-45.
LoopCount(n_bins, m_per_bin) ==
    IF n_bins > 0 /\ m_per_bin > 0 THEN n_bins * m_per_bin ELSE 0

\* AddedMasses with the loops exchanged: bin-major instead of
\* repetition-major order.
AddedMassesBinMajor(n_bins, m_per_bin, min_mass, max_mass) ==
    [k \in 1..LoopCount(n_bins, m_per_bin) |->
        Linspace(min_mass, max_mass, n_bins)[((k - 1) \div m_per_bin) + 1]]

\* added_masses_final: pass k (from 1) is repetition (k-1) \div n_bins,
\* bin j = (k-1) % n_bins.
AddedMasses(n_bins, m_per_bin, min_mass, max_mass) ==
    [k \in 1..LoopCount(n_bins, m_per_bin) |->
        Linspace(min_mass, max_mass, n_bins)[((k - 1) % n_bins) + 1]]

\* new_density = min_dens + np.random.rand() * (max_dens - min_dens)
NewDensity(min_dens, max_dens, u) ==
    RAdd(min_dens, RMul(u, RSub(max_dens, min_dens)))

\* NewIceFraction solved at the literal porosity 0.5 instead of
\* initial_porosity.
NewIceFractionAtHalf(d, ri, rs, p) ==
    RDiv(RSub(d, RMul(rs, Q(1, 2))), RMul(RSub(ri, rs), Q(1, 2)))

\* new_ice_fraction of line 48
NewIceFraction(d, ri, rs, p) ==
    RDiv(RSub(d, RMul(rs, p)), RMul(RSub(ri, rs), p))

\* The porosity given to the appended particles: the literal 0.5 of line 56.
AddedPorosityValue == Q(1, 2)

\* AddedPorosity with one entry per bin instead of one per particle.
AddedPorosityPerBin(n_bins, m_per_bin) ==
    Repeat(AddedPorosityValue, n_bins)

AddedPorosity(n_bins, m_per_bin) ==
    Repeat(AddedPorosityValue, n_bins * m_per_bin)

\* Extend with the operands of + exchanged.
Prepend(old, added) == added \o old

\* np.array(list(old) + added)
Extend(old, added) == old \o added

\* NMassAfter counting the bins only.
NMassAfterBins(n, n_bins, m_per_bin) == n + n_bins

\* self.n_mass += (m_per_bin * n_bins)
NMassAfter(n, n_bins, m_per_bin) == n + (m_per_bin * n_bins)

----------------------------------------------------------------------------
(* Inputs.                                                                 *)

\* Constructor arguments <<rho_ice, rho_sil, initial_porosity>>, with
\* rho_ice # rho_sil and initial_porosity in (0, 1], so that line 48 never
\* divides by zero.
ConstructorArgs ==
    { <<R(1), R(3), Q(1, 2)>>,
      <<R(1), R(3), Q(1, 4)>>,
      <<R(3), R(1), Q(1, 2)>> }

UnitMassValues == {R(2)}

\* Files: tables of non-negative counts.  The sums of the rows are powers
\* of two or zero.
Tables ==
    { <<>>,
      << <<1, 1>> >>,
      << <<1, 3>>, <<1, 0>> >>,
      << <<0, 1>>, <<0, 0>> >> }

\* np.random.rand() is in [0, 1).  The draws of one call: draw k is
\* RandValues[(s + k) % 2 + 1] for a starting point s of the generator.
RandValues == <<R(0), Q(1, 2)>>

Draws(s, k) == RandValues[((s + k) % Len(RandValues)) + 1]

Seeds == 0..(Len(RandValues) - 1)

DefaultDens == <<Q(1, 2), R(1)>>

DefaultMass == <<R(1), R(3)>>

DensRanges == {DefaultDens, <<R(1), Q(1, 2)>>, <<R(2), R(2)>>}

MassRanges == {DefaultMass, <<R(3), R(1)>>, <<R(2), R(2)>>}

Args(nb, m, dr, mr) ==
    [n_bins |-> nb, m_per_bin |-> m, min_dens |-> dr[1], max_dens |-> dr[2],
     min_mass |-> mr[1], max_mass |-> mr[2]]

\* The calls made: every shape (n_bins, m_per_bin) in -1..Max with the
\* default ranges, and every pair of ranges with the largest shape.
CallArgs ==
    {Args(nb, m, DefaultDens, DefaultMass) : nb \in -1..MaxBins, m \in -1..MaxPerBin}
    \cup {Args(MaxBins, MaxPerBin, dr, DefaultMass) : dr \in DensRanges}
    \cup {Args(MaxBins, MaxPerBin, DefaultDens, mr) : mr \in MassRanges}

NoCall ==
    [n_bins |-> 0, m_per_bin |-> 0, min_dens |-> R(0), max_dens |-> R(0),
     min_mass |-> R(0), max_mass |-> R(0), outcome |-> "none"]

CallRecord(a, o) ==
    [n_bins |-> a.n_bins, m_per_bin |-> a.m_per_bin,
     min_dens |-> a.min_dens, max_dens |-> a.max_dens,
     min_mass |-> a.min_mass, max_mass |-> a.max_mass, outcome |-> o]

----------------------------------------------------------------------------
(* The state machine.                                                      *)

Init ==
    /\ \E c \in ConstructorArgs :
          rho_ice = c[1] /\ rho_sil = c[2] /\ initial_porosity = c[3]
    /\ unit_mass \in UnitMassValues
    /\ table \in Tables
    /\ pc = "new"
    /\ n_mass = 0
    /\ porosity = <<>>
    /\ ice_fraction = <<>>
    /\ mass = <<>>
    /\ density = <<>>
    /\ call = NoCall
    /\ ncalls = 0

\* __init__ and __get_planetesimal_properties (lines 7-37).
Construct ==
    /\ pc = "new"
    /\ pc' = "constructed"
    /\ n_mass' = Len(table)
    /\ porosity' = Repeat(initial_porosity, Len(table))
    /\ ice_fraction' = [i \in 1..Len(table) |-> RowIceFraction(table[i])]
    /\ mass' = [i \in 1..Len(table) |-> RowMass(table[i], unit_mass)]
    /\ density' = [i \in 1..Len(table) |->
                      DensityOf(initial_porosity, RowIceFraction(table[i]),
                                rho_ice, rho_sil)]
    /\ UNCHANGED <<rho_ice, rho_sil, unit_mass, initial_porosity, table, call, ncalls>>

\* add_masses with n_bins < 0: np.linspace raises ValueError at line 40,
\* before anything is assigned.
AddMassesRaises(a) ==
    /\ pc = "constructed"
    /\ ncalls < MaxCalls
    /\ a.n_bins < 0
    /\ call' = CallRecord(a, "raised")
    /\ ncalls' = ncalls + 1
    /\ UNCHANGED <<rho_ice, rho_sil, unit_mass, initial_porosity, table, pc,
                   n_mass, porosity, ice_fraction, mass, density>>

\* add_masses with n_bins >= 0 (lines 40-57); s selects the random draws.
AddMassesCompletes(a, s) ==
    /\ pc = "constructed"
    /\ ncalls < MaxCalls
    /\ a.n_bins >= 0
    /\ LET cnt == LoopCount(a.n_bins, a.m_per_bin)
           added_masses_final ==
               AddedMasses(a.n_bins, a.m_per_bin, a.min_mass, a.max_mass)
           added_density_final ==
               [k \in 1..cnt |-> NewDensity(a.min_dens, a.max_dens, Draws(s, k))]
           added_ice_frac_final ==
               [k \in 1..cnt |->
                   NewIceFraction(added_density_final[k], rho_ice, rho_sil,
                                  initial_porosity)]
       IN  /\ ice_fraction' = Extend(ice_fraction, added_ice_frac_final)
           /\ mass' = Extend(mass, added_masses_final)
           /\ density' = Extend(density, added_density_final)
           /\ porosity' = Extend(porosity, AddedPorosity(a.n_bins, a.m_per_bin))
           /\ n_mass' = NMassAfter(n_mass, a.n_bins, a.m_per_bin)
    /\ call' = CallRecord(a, "ok")
    /\ ncalls' = ncalls + 1
    /\ UNCHANGED <<rho_ice, rho_sil, unit_mass, initial_porosity, table, pc>>

Next ==
    \/ Construct
    \/ \E a \in CallArgs : AddMassesRaises(a)
    \/ \E a \in CallArgs, s \in Seeds : AddMassesCompletes(a, s)

Spec == Init /\ [][Next]_vars

----------------------------------------------------------------------------
(* Properties.                                                             *)

Constructed == pc = "constructed"

\* The indices of the particles appended by add_masses.
Synthetic == (Len(table) + 1)..Len(density)

HasZeroRow(t) == \E i \in 1..Len(t) : t[i][1] = 0 /\ t[i][2] = 0

\* The contract of section 4.2 on the arguments of add_masses.
ValidArgs(c) ==
    /\ c.n_bins > 0
    /\ c.m_per_bin > 0
    /\ RLe(c.min_mass, c.max_mass)
    /\ RLe(c.min_dens, c.max_dens)

\* An add_masses call returns or raises in this step.
CallStep == ncalls' = ncalls + 1

InUnit(f) == RLe(R(0), f) /\ RLe(f, R(1))

AllInUnit(fs) == \A i \in 1..Len(fs) : InUnit(fs[i])

IsPrefix(old, new) ==
    /\ Len(old) <= Len(new)
    /\ \A i \in 1..Len(old) : new[i] = old[i]

\* C1: add_masses rejects the call whenever n_bins <= 0, m_per_bin <= 0,
\* min_mass > max_mass or min_dens > max_dens, and a rejected call leaves
\* ice_fraction, mass, density, porosity and n_mass as they were.
C1_InvalidArgsRejected ==
    [][(CallStep /\ ~ValidArgs(call'))
          => (call'.outcome = "raised" /\ UNCHANGED population)]_vars

\* C2: after construction and any add_masses calls, every particle i has
\* density[i] = porosity[i] * (rho_ice*ice_fraction[i] +
\* rho_sil*(1 - ice_fraction[i])), for every initial_porosity.  (The two
\* sides are compared as values, so that a row whose fraction is undefined
\* is not counted against this claim: that is C8's matter.)
C2_DensityInvariant ==
    Constructed =>
        \A i \in 1..Len(density) :
            density[i] = DensityOf(porosity[i], ice_fraction[i], rho_ice, rho_sil)

\* C3: after construction and any add_masses calls that complete,
\* ice_fraction, mass, density and porosity have the same length.
C3_EqualLengths ==
    Constructed =>
        /\ Len(ice_fraction) = Len(mass)
        /\ Len(mass) = Len(density)
        /\ Len(density) = Len(porosity)

C3_Witness ==
    /\ call.outcome = "ok"
    /\ call.n_bins = 1 /\ call.m_per_bin = 2
    /\ Len(table) > 0
    /\ Len(porosity) = Len(table) + 2

\* C4: a call with n_bins > 0 and m_per_bin > 0 increases n_mass and the
\* lengths of mass, density and ice_fraction by exactly n_bins * m_per_bin.
C4_GrowsByProduct ==
    [][(CallStep /\ call'.n_bins > 0 /\ call'.m_per_bin > 0)
          => LET added == call'.n_bins * call'.m_per_bin
             IN  /\ n_mass' = n_mass + added
                 /\ Len(mass') = Len(mass) + added
                 /\ Len(density') = Len(density) + added
                 /\ Len(ice_fraction') = Len(ice_fraction) + added]_vars

C4_Witness ==
    /\ ncalls = 2
    /\ call.outcome = "ok"
    /\ call.n_bins = 2 /\ call.m_per_bin = 2
    /\ n_mass = Len(table) + 6
    /\ Len(mass) = Len(table) + 6

\* C5: after construction from a table of non-negative counts without a
\* zero row, and after add_masses calls with valid arguments, every
\* ice_fraction[i] is in [0, 1].  Stated step by step: construction
\* establishes it and every valid call preserves it.
C5_IceFractionInUnitInterval ==
    [][(\/ (pc = "new" /\ pc' = "constructed" /\ ~HasZeroRow(table))
        \/ (CallStep /\ ValidArgs(call') /\ AllInUnit(ice_fraction)))
          => AllInUnit(ice_fraction')]_vars

\* C6: add_masses only appends: the entries present before a call are
\* unchanged at their indices after it, and no length decreases.
C6_AppendOnly ==
    [][Constructed =>
          /\ IsPrefix(ice_fraction, ice_fraction')
          /\ IsPrefix(mass, mass')
          /\ IsPrefix(density, density')
          /\ IsPrefix(porosity, porosity')]_vars

C6_Witness ==
    /\ ncalls = 2
    /\ call.outcome = "ok"
    /\ Len(table) > 0
    /\ LoopCount(call.n_bins, call.m_per_bin) > 0
    /\ Len(mass) > Len(table) + LoopCount(call.n_bins, call.m_per_bin)

\* C7: for every synthetic particle, with drawn density d and ice fraction
\* f back-solved at p = initial_porosity, p*(rho_ice*f + rho_sil*(1 - f))
\* reproduces d.
C7_RoundTrip ==
    Constructed =>
        \A i \in Synthetic :
            REq(DensityOf(initial_porosity, ice_fraction[i], rho_ice, rho_sil),
                density[i])

C7_Witness ==
    /\ Constructed
    /\ initial_porosity = Q(1, 4)
    /\ \E i \in Synthetic :
          /\ density[i] = Q(3, 4)
          /\ ice_fraction[i] = R(0)

\* C8: construction from a table with a row n_ice = 0, n_sil = 0 ends in an
\* error, and never yields a population with an undefined ice_fraction or
\* density entry.
C8_ZeroRowFails ==
    (pc # "new" /\ HasZeroRow(table)) =>
        /\ pc = "failed"
        /\ \A i \in 1..Len(ice_fraction) : ~IsNaN(ice_fraction[i])
        /\ \A i \in 1..Len(density) : ~IsNaN(density[i])

\* C9: for n_bins > 0 and m_per_bin > 0 the k-th appended mass,
\* k in 0 .. n_bins*m_per_bin - 1, is the (k mod n_bins)-th of n_bins
\* linearly spaced values from min_mass to max_mass inclusive.
C9_LinearValue(c, j) ==
    IF c.n_bins = 1 THEN c.min_mass
    ELSE RAdd(c.min_mass,
              RDiv(RMul(R(j), RSub(c.max_mass, c.min_mass)), R(c.n_bins - 1)))

C9_RepetitionMajor ==
    [][(CallStep /\ call'.n_bins > 0 /\ call'.m_per_bin > 0)
          => /\ Len(mass') = Len(mass) + call'.n_bins * call'.m_per_bin
             /\ \A k \in 0..(call'.n_bins * call'.m_per_bin - 1) :
                   mass'[Len(mass) + k + 1]
                       = C9_LinearValue(call', k % call'.n_bins)
             /\ \A j \in 0..(call'.n_bins - 1) :
                   Cardinality({k \in 0..(call'.n_bins * call'.m_per_bin - 1) :
                                   /\ k % call'.n_bins = j
                                   /\ mass'[Len(mass) + k + 1]
                                          = C9_LinearValue(call', j)})
                       = call'.m_per_bin]_vars

C9_Witness ==
    /\ ncalls = 1
    /\ call.outcome = "ok"
    /\ call.n_bins = 2 /\ call.m_per_bin = 2
    /\ call.min_mass = R(1) /\ call.max_mass = R(3)
    /\ SubSeq(mass, Len(table) + 1, Len(mass)) = <<R(1), R(3), R(1), R(3)>>

\* C10: after construction and any add_masses calls that complete, for any
\* integers n_bins and m_per_bin, n_mass equals the length of each of mass,
\* density, ice_fraction and porosity, and n_mass never decreases.
C10_NMassIsLength ==
    [][(pc' = "constructed")
          => /\ n_mass' = Len(mass')
             /\ n_mass' = Len(density')
             /\ n_mass' = Len(ice_fraction')
             /\ n_mass' = Len(porosity')
             /\ (Constructed => n_mass' >= n_mass)]_vars

====
